---------------------------- MODULE Spec2Model ----------------------------
(***************************************************************************)
(* A model of math3d's vector and quaternion types                         *)
(* (src/math3d/vectorN.py, src/math3d/quaternion.py).                      *)
(*                                                                         *)
(* The library is a set of synchronous operations on numpy arrays.  A      *)
(* behaviour of the model is one call sequence: the operands are chosen in *)
(* the initial state, every action is one call of a method of the library, *)
(* and the call's outcome (a value or a raised exception) is stored in     *)
(* ret (or in tmp for a call that prepares the operand of the next call).  *)
(*                                                                         *)
(* Numbers.  The components are binary floating point numbers.  The model  *)
(* draws them from the multiples of 1/2 of small magnitude and computes in *)
(* units of 1/One: every product the modelled operations form on these     *)
(* inputs is a multiple of 1/One, so the arithmetic of the model is exact, *)
(* and so is the double arithmetic of numpy on the same inputs.            *)
(***************************************************************************)
EXTENDS Integers, Sequences, FiniteSets, TLC

VARIABLES self, other, tmp, ret, pc, op

vars == <<self, other, tmp, ret, pc, op>>

(***************************************************************************)
(* Bounds of the model.                                                    *)
(***************************************************************************)
\* quaternions q with components in halves and 4*|q|^2 <= MaxNormSq
MaxNormSq == 4
\* vector components are the integers -MaxCoord..MaxCoord
MaxCoord == 1
\* batches hold 1..MaxLen rows
MaxLen == 3
\* arrays that are indexed hold 0..MaxRows rows
MaxRows == 4
\* every extent of a result shape is in 0..MaxDim
MaxDim == 5

(***************************************************************************)
(* Numbers: dtype=float, in units of 1/One.                                *)
(***************************************************************************)
One == 16

Half == One \div 2

Mul(a, b) == (a * b) \div One

Add(a, b) == a + b

Sub(a, b) == a - b

Max(a, b) == IF a >= b THEN a ELSE b

Min(a, b) == IF a <= b THEN a ELSE b

(***************************************************************************)
(* Values.  A value is an array with its class: cls is the Python class,   *)
(* N the dimension of the class (0 when it has none) and a the data: a     *)
(* sequence of numbers for a one-dimensional array, a sequence of rows for *)
(* a two-dimensional one.  The outcome of a call is a value or an          *)
(* exception.                                                              *)
(***************************************************************************)
Val(cls, N, a) == [kind |-> "value", cls |-> cls, N |-> N, a |-> a]

Raise(exc) == [kind |-> "raise", exc |-> exc]

None == [kind |-> "none"]

\* a class, as getReturnType returns it
T(cls, N) == [cls |-> cls, N |-> N]

TNone == T("None", 0)

TNdarray == T("ndarray", 0)

IsVector(x) == x.kind = "value" /\ x.cls \in {"VectorN", "VectorNArray"}

IsQuat(x) == x.kind = "value" /\ x.cls \in {"Quaternion", "QuaternionArray"}

(***************************************************************************)
(* numpy: elementwise operations with broadcasting.  A one-dimensional     *)
(* operand of length k meets a two-dimensional one as the single row       *)
(* (1, k); x[:, None] is the column (n, 1).  Two extents are compatible    *)
(* when they are equal or one of them is 1.                                *)
(***************************************************************************)
CanBroadcast(n, m) == n = m \/ n = 1 \/ m = 1

BLen(n, m) == IF n = 1 THEN m ELSE n

Pick(x, i) == IF Len(x) = 1 THEN x[1] ELSE x[i]

\* x * y and x - y of two one-dimensional arrays
Mul1(x, y) == [i \in 1..BLen(Len(x), Len(y)) |-> Mul(Pick(x, i), Pick(y, i))]

Sub1(x, y) == [i \in 1..BLen(Len(x), Len(y)) |-> Sub(Pick(x, i), Pick(y, i))]

Add1(x, y) == [i \in 1..BLen(Len(x), Len(y)) |-> Add(Pick(x, i), Pick(y, i))]

\* x * y and x + y of two two-dimensional arrays
Mul2(x, y) == [i \in 1..BLen(Len(x), Len(y)) |-> Mul1(Pick(x, i), Pick(y, i))]

Add2(x, y) == [i \in 1..BLen(Len(x), Len(y)) |-> Add1(Pick(x, i), Pick(y, i))]

\* the extents of two non-empty two-dimensional arrays are compatible
CanBin2(x, y) ==
    /\ CanBroadcast(Len(x), Len(y))
    /\ CanBroadcast(Len(x[1]), Len(y[1]))

AsRow(x) == <<x>>

AsCol(x) == [i \in 1..Len(x) |-> <<x[i]>>]

\* x[:, k] and x[:, :k] of a two-dimensional array (k counted from 0)
Col(x, k) == [i \in 1..Len(x) |-> x[i][k + 1]]

ColsTo(x, k) == [i \in 1..Len(x) |-> SubSeq(x[i], 1, k)]

\* c * x for a Python number c
Scale1(c, x) == [i \in 1..Len(x) |-> c * x[i]]

Scale2(c, x) == [i \in 1..Len(x) |-> Scale1(c, x[i])]

RECURSIVE Sum(_)
Sum(x) == IF Len(x) = 0 THEN 0 ELSE x[1] + Sum(Tail(x))

\* np.sum(x, axis=1)
SumAxis1(x) == [i \in 1..Len(x) |-> Sum(x[i])]

Cross3(a, b) ==
    << Mul(a[2], b[3]) - Mul(a[3], b[2]),
       Mul(a[3], b[1]) - Mul(a[1], b[3]),
       Mul(a[1], b[2]) - Mul(a[2], b[1]) >>

\* np.cross of two arrays of 3-vectors, row by row with broadcasting
NpCross(x, y) ==
    [i \in 1..BLen(Len(x), Len(y)) |-> Cross3(Pick(x, i), Pick(y, i))]

Dot(a, b) == Sum([i \in 1..Len(a) |-> Mul(a[i], b[i])])

\* lengthSquared() is 1
IsUnit(q) == Dot(q, q) = One

\* np.dot of a vector and a square matrix: out[k] = sum_j v[j] * m[j][k]
VecMat(v, m) ==
    [k \in 1..Len(m) |-> Sum([j \in 1..Len(v) |-> Mul(v[j], m[j][k])])]

(***************************************************************************)
(* getReturnType: the class of a result of a given shape.                  *)
(***************************************************************************)
\* mutant: the two-dimensional case tests the first extent, not the last
VectorN_getReturnType_firstExtent(N, shape) ==
    IF Len(shape) = 0 THEN TNone
    ELSE IF Len(shape) = 1
         THEN IF shape[1] = N THEN T("VectorN", N) ELSE TNdarray
    ELSE IF Len(shape) = 2
         THEN IF shape[1] = N THEN T("VectorNArray", N) ELSE TNdarray
    ELSE TNdarray

VectorN_getReturnType(N, shape) ==
    IF Len(shape) = 0 THEN TNone
    ELSE IF Len(shape) = 1
         THEN IF shape[1] = N THEN T("VectorN", N) ELSE TNdarray
    ELSE IF Len(shape) = 2
         THEN IF shape[Len(shape)] = N THEN T("VectorNArray", N) ELSE TNdarray
    ELSE TNdarray

VectorNArray_getReturnType(N, shape) ==
    IF Len(shape) = 0 THEN TNone
    ELSE IF Len(shape) = 2
         THEN IF shape[2] = N THEN T("VectorNArray", N) ELSE TNdarray
    ELSE IF Len(shape) = 1
         THEN IF shape[1] = N THEN T("VectorN", N) ELSE TNdarray
    ELSE TNdarray

Quaternion_getReturnType(shape) ==
    IF Len(shape) = 0 THEN TNone
    ELSE IF Len(shape) = 1
         THEN IF shape[1] = 4 THEN T("Quaternion", 4) ELSE TNdarray
    ELSE IF Len(shape) = 2
         THEN IF shape[Len(shape)] = 4 THEN T("QuaternionArray", 4) ELSE TNdarray
    ELSE TNdarray

QuaternionArray_getReturnType(shape) ==
    IF Len(shape) = 0 THEN TNone
    ELSE IF Len(shape) = 2
         THEN IF shape[2] = 4 THEN T("QuaternionArray", 4) ELSE TNdarray
    ELSE IF Len(shape) = 1
         THEN IF shape[1] = 4 THEN T("Quaternion", 4) ELSE TNdarray
    ELSE TNdarray

(***************************************************************************)
(* numpy basic indexing.  An index is one item or a tuple of items; an     *)
(* item is an integer, a slice (":" is the full slice, slice(None, None,   *)
(* None)), None (a new axis) or Ellipsis.                                  *)
(***************************************************************************)
Ix(t, full, start, stop, k) ==
    [t |-> t, full |-> full, start |-> start, stop |-> stop, k |-> k]

IxInt(k) == Ix("int", FALSE, 0, 0, k)

IxAll == Ix("slice", TRUE, 0, 0, 0)

IxSlice(start, stop) == Ix("slice", FALSE, start, stop, 0)

IxNewaxis == Ix("newaxis", FALSE, 0, 0, 0)

IxEllipsis == Ix("ellipsis", FALSE, 0, 0, 0)

Index(isTuple, items) == [kind |-> "index", tuple |-> isTuple, items |-> items]

SliceLo(s, n) == IF s.full THEN 0 ELSE Min(s.start, n)

SliceHi(s, n) == IF s.full THEN n ELSE Min(s.stop, n)

SliceLen(s, n) == Max(SliceHi(s, n) - SliceLo(s, n), 0)

Take(x, s) == SubSeq(x, SliceLo(s, Len(x)) + 1, SliceHi(s, Len(x)))

Got(shape, a) == [ok |-> TRUE, shape |-> shape, a |-> a]

IndexError == [ok |-> FALSE, shape |-> <<>>, a |-> <<>>]

\* ndarray.__getitem__ of a one-dimensional array of N numbers
NdGetItem1(a, N, idx) ==
    LET items == idx.items
        c == items[1]
    IN  IF items = <<IxNewaxis, IxEllipsis>> THEN Got(<<1, N>>, <<a>>)
        ELSE IF Len(items) > 1 THEN IndexError
        ELSE IF c.t = "int"
             THEN IF c.k >= N THEN IndexError ELSE Got(<<>>, a[c.k + 1])
        ELSE IF c.t = "slice" THEN Got(<<SliceLen(c, N)>>, Take(a, c))
        ELSE IF c.t = "newaxis" THEN Got(<<1, N>>, <<a>>)
        ELSE Got(<<N>>, a)

\* ndarray.__getitem__ of a two-dimensional array of n rows of N numbers
NdGetItem2(a, n, N, idx) ==
    LET items == idx.items
        r == items[1]
        c == IF Len(items) > 1 THEN items[2] ELSE IxAll
        rows == IF r.t = "slice" THEN Take(a, r) ELSE a
    IN  IF items = <<IxNewaxis, IxEllipsis>> THEN Got(<<1, n, N>>, <<a>>)
        ELSE IF Len(items) > 2 \/ r.t \notin {"int", "slice"}
                \/ c.t \notin {"int", "slice"} THEN IndexError
        ELSE IF (r.t = "int" /\ r.k >= n) \/ (c.t = "int" /\ c.k >= N)
             THEN IndexError
        ELSE IF r.t = "int" /\ c.t = "int" THEN Got(<<>>, a[r.k + 1][c.k + 1])
        ELSE IF r.t = "int" THEN Got(<<SliceLen(c, N)>>, Take(a[r.k + 1], c))
        ELSE IF c.t = "int"
             THEN Got(<<SliceLen(r, n)>>, [i \in 1..Len(rows) |-> rows[i][c.k + 1]])
        ELSE Got(<<SliceLen(r, n), SliceLen(c, N)>>,
                 [i \in 1..Len(rows) |-> Take(rows[i], c)])

\* ret.view(typ), or ret itself when typ is None
View(typ, r) ==
    IF typ = TNone THEN Val("float", 0, r.a) ELSE Val(typ.cls, typ.N, r.a)

VectorN__getitem__(slf, idx) ==
    LET r == NdGetItem1(slf.a, slf.N, idx)
    IN  IF ~r.ok THEN Raise("IndexError")
        ELSE View(VectorN_getReturnType(slf.N, r.shape), r)

VectorNArray__getitem__(slf, idx) ==
    LET r == NdGetItem2(slf.a, Len(slf.a), slf.N, idx)
    IN  IF ~r.ok THEN Raise("IndexError")
        ELSE View(VectorNArray_getReturnType(slf.N, r.shape), r)

Quaternion__getitem__(slf, idx) ==
    LET r == NdGetItem1(slf.a, 4, idx)
    IN  IF ~r.ok THEN Raise("IndexError")
        ELSE View(Quaternion_getReturnType(r.shape), r)

QuaternionArray__getitem__(slf, idx) ==
    LET r == NdGetItem2(slf.a, Len(slf.a), 4, idx)
    IN  IF ~r.ok THEN Raise("IndexError")
        ELSE IF idx.tuple /\ Len(idx.items) > 1 /\ idx.items[2] # IxAll
             THEN Val("ndarray", 0, r.a)
        ELSE View(QuaternionArray_getReturnType(r.shape), r)

\* other[None, ...] of a scalar entity: its length-1 batch (asArray)
asArray(x) ==
    IF x.cls = "Quaternion"
    THEN Quaternion__getitem__(x, Index(TRUE, <<IxNewaxis, IxEllipsis>>))
    ELSE VectorN__getitem__(x, Index(TRUE, <<IxNewaxis, IxEllipsis>>))

(***************************************************************************)
(* Indexing and type resolution: the calls.                                *)
(***************************************************************************)
Sizes == {2, 3, 4}

Ramp(n, N) == [i \in 1..n |-> [j \in 1..N |-> One * ((i - 1) * N + (j - 1))]]

Class(cls, N) == [kind |-> "class", cls |-> cls, N |-> N]

Classes ==
    {Class("VectorN", N) : N \in Sizes} \cup {Class("VectorNArray", N) : N \in Sizes}
    \cup {Class("Quaternion", 4), Class("QuaternionArray", 4)}

Shapes ==
    {<<>>} \cup {<<d>> : d \in 0..MaxDim}
    \cup {<<d, e>> : d \in 0..MaxDim, e \in 0..MaxDim}
    \cup {<<d, e, f>> : d \in 0..MaxDim, e \in 0..MaxDim, f \in 0..MaxDim}

ShapeArg(shape) == [kind |-> "shape", shape |-> shape]

IndexedArrays ==
    {Val("VectorNArray", N, Ramp(n, N)) : N \in Sizes, n \in 0..MaxRows}
    \cup {Val("QuaternionArray", 4, Ramp(n, 4)) : n \in 0..MaxRows}

IndexedScalars ==
    {Val("VectorN", N, Ramp(1, N)[1]) : N \in Sizes}
    \cup {Val("Quaternion", 4, Ramp(1, 4)[1])}

RowItems == {IxAll, IxSlice(0, 2), IxSlice(1, 3)} \cup {IxInt(k) : k \in 0..MaxRows}

ColItems == {IxAll, IxSlice(0, 2), IxSlice(0, 3)} \cup {IxInt(k) : k \in 0..3}

Indices ==
    {Index(FALSE, <<r>>) : r \in RowItems}
    \cup {Index(TRUE, <<r, c>>) : r \in RowItems, c \in ColItems}
    \cup {Index(TRUE, <<IxNewaxis, IxEllipsis>>)}

InitIndex ==
    /\ \/ self \in Classes /\ other \in {ShapeArg(s) : s \in Shapes}
       \/ self \in IndexedArrays /\ other \in Indices
       \/ self \in IndexedScalars /\ other \in Indices
    /\ tmp = None
    /\ ret = None
    /\ pc = "call"
    /\ op = ""

Return(name, r) ==
    /\ ret' = r
    /\ pc' = IF r.kind = "raise" THEN "raise" ELSE "return"
    /\ op' = name
    /\ UNCHANGED <<self, other, tmp>>

TypeResult(t) == [kind |-> "type", cls |-> t.cls, N |-> t.N]

Call_VectorN_getReturnType ==
    /\ pc = "call" /\ self.kind = "class" /\ self.cls = "VectorN"
    /\ Return("getReturnType", TypeResult(VectorN_getReturnType(self.N, other.shape)))

Call_VectorNArray_getReturnType ==
    /\ pc = "call" /\ self.kind = "class" /\ self.cls = "VectorNArray"
    /\ Return("getReturnType",
              TypeResult(VectorNArray_getReturnType(self.N, other.shape)))

Call_Quaternion_getReturnType ==
    /\ pc = "call" /\ self.kind = "class" /\ self.cls = "Quaternion"
    /\ Return("getReturnType", TypeResult(Quaternion_getReturnType(other.shape)))

Call_QuaternionArray_getReturnType ==
    /\ pc = "call" /\ self.kind = "class" /\ self.cls = "QuaternionArray"
    /\ Return("getReturnType", TypeResult(QuaternionArray_getReturnType(other.shape)))

Call_VectorN__getitem__ ==
    /\ pc = "call" /\ self.kind = "value" /\ self.cls = "VectorN"
    /\ other.kind = "index"
    /\ Return("__getitem__", VectorN__getitem__(self, other))

Call_VectorNArray__getitem__ ==
    /\ pc = "call" /\ self.kind = "value" /\ self.cls = "VectorNArray"
    /\ other.kind = "index"
    /\ Return("__getitem__", VectorNArray__getitem__(self, other))

Call_Quaternion__getitem__ ==
    /\ pc = "call" /\ self.kind = "value" /\ self.cls = "Quaternion"
    /\ other.kind = "index"
    /\ Return("__getitem__", Quaternion__getitem__(self, other))

Call_QuaternionArray__getitem__ ==
    /\ pc = "call" /\ self.kind = "value" /\ self.cls = "QuaternionArray"
    /\ other.kind = "index"
    /\ Return("__getitem__", QuaternionArray__getitem__(self, other))

NextIndex ==
    \/ Call_VectorN_getReturnType
    \/ Call_VectorNArray_getReturnType
    \/ Call_Quaternion_getReturnType
    \/ Call_QuaternionArray_getReturnType
    \/ Call_VectorN__getitem__
    \/ Call_VectorNArray__getitem__
    \/ Call_Quaternion__getitem__
    \/ Call_QuaternionArray__getitem__

SpecIndex == InitIndex /\ [][NextIndex]_vars

(***************************************************************************)
(* utils.asarray and utils.arrayCompat.  asarray keeps a math3d value as   *)
(* it is; arrayCompat brings its argument to the batched form: a scalar    *)
(* entity becomes its length-1 batch, a batch is kept with the length it   *)
(* has (the kernels rely on numpy's broadcasting of a length-1 batch).     *)
(***************************************************************************)
asarray(x) == x

arrayCompat(x) ==
    IF x.cls \in {"VectorN", "Quaternion"} THEN asArray(x) ELSE x

(***************************************************************************)
(* Quaternion kernels.                                                     *)
(***************************************************************************)
\* QuaternionArray.__new__: reshape((-1, 4)) of rows of 4
QuaternionArray__new__(a) == Val("QuaternionArray", 4, a)

\* prod[:, k] = value, for a value of L entries and a prod of n rows
CanAssign(L, n) == L = n \/ L = 1

\* mutant: the cross product is taken as cross(q, p)
quatquatProduct_crossSwapped(p0, q0) ==
    LET p == arrayCompat(p0).a
        q == arrayCompat(q0).a
        n == Max(Len(p), Len(q))
        w == Sub1(Mul1(Col(p, 3), Col(q, 3)),
                  SumAxis1(Mul2(ColsTo(p, 3), ColsTo(q, 3))))
        xyz == Add2(Add2(Mul2(AsCol(Col(p, 3)), ColsTo(q, 3)),
                         Mul2(AsCol(Col(q, 3)), ColsTo(p, 3))),
                    NpCross(ColsTo(q, 3), ColsTo(p, 3)))
    IN  IF ~CanBroadcast(Len(p), Len(q)) \/ ~CanAssign(Len(w), n)
        THEN Raise("ValueError")
        ELSE QuaternionArray__new__(
                 [i \in 1..n |-> <<Pick(xyz, i)[1], Pick(xyz, i)[2],
                                   Pick(xyz, i)[3], Pick(w, i)>>])

quatquatProduct(p0, q0) ==
    LET p == arrayCompat(p0).a
        q == arrayCompat(q0).a
        n == Max(Len(p), Len(q))
        w == Sub1(Mul1(Col(p, 3), Col(q, 3)),
                  SumAxis1(Mul2(ColsTo(p, 3), ColsTo(q, 3))))
        xyz == Add2(Add2(Mul2(AsCol(Col(p, 3)), ColsTo(q, 3)),
                         Mul2(AsCol(Col(q, 3)), ColsTo(p, 3))),
                    NpCross(ColsTo(p, 3), ColsTo(q, 3)))
    IN  IF ~CanBroadcast(Len(p), Len(q)) \/ ~CanAssign(Len(w), n)
        THEN Raise("ValueError")
        ELSE QuaternionArray__new__(
                 [i \in 1..n |-> <<Pick(xyz, i)[1], Pick(xyz, i)[2],
                                   Pick(xyz, i)[3], Pick(w, i)>>])

\* Matrix3Array.zeros(n) of matrixN, and the item mats[0] of a matrix array
Matrix3Array_zeros(n) == Val("MatrixNArray", 3, [i \in 1..n |-> <<<<0, 0, 0>>, <<0, 0, 0>>, <<0, 0, 0>>>>])

MatrixNArray_item0(m) == Val("MatrixN", m.N, m.a[1])

\* mutant: mats[:, 0, 1] = 2 * (xy + zw)
asMatrixArray_signSlip(slf) ==
    LET x == Col(slf.a, 0)
        y == Col(slf.a, 1)
        z == Col(slf.a, 2)
        w == Col(slf.a, 3)
        xx == Mul1(x, x)
        xy == Mul1(x, y)
        xz == Mul1(x, z)
        xw == Mul1(x, w)
        yy == Mul1(y, y)
        yz == Mul1(y, z)
        yw == Mul1(y, w)
        zz == Mul1(z, z)
        zw == Mul1(z, w)
    IN  Val("MatrixNArray", 3, [i \in 1..Len(slf.a) |->
            << << One - 2 * (yy[i] + zz[i]), 2 * (xy[i] + zw[i]), 2 * (xz[i] + yw[i]) >>,
               << 2 * (xy[i] + zw[i]), One - 2 * (xx[i] + zz[i]), 2 * (yz[i] - xw[i]) >>,
               << 2 * (xz[i] - yw[i]), 2 * (yz[i] + xw[i]), One - 2 * (xx[i] + yy[i]) >> >>])

asMatrixArray(slf) ==
    LET x == Col(slf.a, 0)
        y == Col(slf.a, 1)
        z == Col(slf.a, 2)
        w == Col(slf.a, 3)
        xx == Mul1(x, x)
        xy == Mul1(x, y)
        xz == Mul1(x, z)
        xw == Mul1(x, w)
        yy == Mul1(y, y)
        yz == Mul1(y, z)
        yw == Mul1(y, w)
        zz == Mul1(z, z)
        zw == Mul1(z, w)
        mats == Matrix3Array_zeros(Len(slf.a))
    IN  [mats EXCEPT !.a = [i \in 1..Len(slf.a) |->
            << << One - 2 * (yy[i] + zz[i]), 2 * (xy[i] - zw[i]), 2 * (xz[i] + yw[i]) >>,
               << 2 * (xy[i] + zw[i]), One - 2 * (xx[i] + zz[i]), 2 * (yz[i] - xw[i]) >>,
               << 2 * (xz[i] - yw[i]), 2 * (yz[i] + xw[i]), One - 2 * (xx[i] + yy[i]) >> >>]]

\* Quaternion.asMatrix
asMatrix(slf) == MatrixNArray_item0(asMatrixArray(asArray(slf)))

\* ndarray.__mul__: the elementwise product, of the class of the left operand
ndarray__mul__(slf, oth) ==
    LET x == IF slf.cls \in {"VectorN", "Quaternion"} THEN <<slf.a>> ELSE slf.a
        y == IF oth.cls \in {"VectorN", "Quaternion"} THEN <<oth.a>> ELSE oth.a
    IN  IF oth.cls = "float"
        THEN Val(slf.cls, slf.N, [i \in 1..Len(x) |-> [j \in 1..Len(x[i]) |-> Mul(x[i][j], oth.a)]])
        ELSE IF CanBin2(x, y) THEN Val(slf.cls, slf.N, Mul2(x, y))
        ELSE Raise("ValueError")

\* the first item of a batch, ret[0]
Item0(r) ==
    IF r.kind = "raise" THEN r
    ELSE IF r.cls = "QuaternionArray"
         THEN QuaternionArray__getitem__(r, Index(FALSE, <<IxInt(0)>>))
    ELSE VectorNArray__getitem__(r, Index(FALSE, <<IxInt(0)>>))

Quaternion__mul__(slf, oth) ==
    LET o == asarray(oth)
    IN  IF o.cls = "Quaternion"
        THEN Item0(quatquatProduct(asArray(slf), asArray(o)))
        ELSE IF o.cls = "QuaternionArray"
        THEN quatquatProduct(asArray(slf), o)
        ELSE IF o.cls \in {"VectorN", "VectorNArray"}
        THEN Raise("NotImplementedError")
        ELSE LET r == ndarray__mul__(slf, o)
             IN  IF r.kind = "raise" THEN r ELSE [r EXCEPT !.a = r.a[1]]

\* mutant: only a scalar vector is refused
QuaternionArray__mul___scalarVectorOnly(slf, oth) ==
    IF oth.cls = "QuaternionArray" \/ oth.cls = "Quaternion"
    THEN quatquatProduct(slf, arrayCompat(oth))
    ELSE IF oth.cls = "VectorN"
    THEN Raise("NotImplementedError")
    ELSE ndarray__mul__(slf, oth)

QuaternionArray__mul__(slf, oth) ==
    LET o == arrayCompat(oth)
    IN  IF o.cls = "QuaternionArray"
        THEN quatquatProduct(slf, o)
        ELSE IF o.cls \in {"VectorN", "VectorNArray"}
        THEN Raise("NotImplementedError")
        ELSE ndarray__mul__(slf, o)

(***************************************************************************)
(* The operands of the multiplications.                                    *)
(***************************************************************************)
Halves == {k \in -MaxNormSq..MaxNormSq : k * k <= MaxNormSq}

\* the quaternions with components in halves and 4*|q|^2 <= MaxNormSq
QuatVals ==
    {<<x * Half, y * Half, z * Half, w * Half>> : x \in Halves, y \in Halves,
                                                  z \in Halves, w \in Halves}
    \cap {q \in [1..4 -> {k * Half : k \in Halves}] :
              q[1] * q[1] + q[2] * q[2] + q[3] * q[3] + q[4] * q[4]
                  <= MaxNormSq * Half * Half}

\* rows for the batches: two unit quaternions and one that is not
QuatPool == {<<Half, Half, Half, Half>>, <<One, 0, 0, 0>>, <<0, Half, 0, One>>}

QuatBatches == UNION {[1..n -> QuatPool] : n \in 1..MaxLen}

Coords == {k * One : k \in -MaxCoord..MaxCoord}

VecVals(N) == [1..N -> Coords]

VecPool(N) ==
    {SubSeq(<<One, 0, 0, 2 * One>>, 1, N), SubSeq(<<0, One, 0, One>>, 1, N),
     SubSeq(<<One, 2 * One, 3 * One, 4 * One>>, 1, N)}

VecBatches(N) == UNION {[1..n -> VecPool(N)] : n \in 1..MaxLen}

Quaternions(S) == {Val("Quaternion", 4, q) : q \in S}

QuaternionArrays(S) == {Val("QuaternionArray", 4, b) : b \in S}

Vectors(N, S) == {Val("VectorN", N, v) : v \in S}

VectorArrays(N, S) == {Val("VectorNArray", N, b) : b \in S}

Floats == {Val("float", 0, 2 * One), Val("float", 0, -Half)}

InitMul ==
    /\ \/ self \in Quaternions(QuatVals) /\ other \in Quaternions(QuatVals)
       \/ self \in QuaternionArrays(QuatBatches) /\ other \in QuaternionArrays(QuatBatches)
       \/ self \in Quaternions(QuatPool) /\ other \in QuaternionArrays(QuatBatches)
       \/ self \in QuaternionArrays(QuatBatches) /\ other \in Quaternions(QuatPool)
       \/ /\ \/ self \in Quaternions(QuatPool)
             \/ self \in QuaternionArrays(UNION {[1..n -> {<<0, Half, 0, One>>}] : n \in 1..MaxLen})
          /\ \/ \E N \in Sizes : other \in Vectors(N, VecPool(N))
             \/ \E N \in Sizes : other \in VectorArrays(N, VecBatches(N))
             \/ other \in Floats
    /\ tmp = None
    /\ ret = None
    /\ pc = "call"
    /\ op = ""

Call_Quaternion__mul__ ==
    /\ pc = "call" /\ self.cls = "Quaternion"
    /\ Return("__mul__", Quaternion__mul__(self, other))

Call_QuaternionArray__mul__ ==
    /\ pc = "call" /\ self.cls = "QuaternionArray"
    /\ Return("__mul__", QuaternionArray__mul__(self, other))

\* (p * q).asMatrix(): the product is kept in tmp
Call_asMatrix ==
    /\ pc = "return" /\ op = "__mul__" /\ ret.cls = "Quaternion"
    /\ tmp' = ret
    /\ ret' = asMatrix(ret)
    /\ op' = "asMatrix"
    /\ UNCHANGED <<self, other, pc>>

\* (p * q).asMatrixArray()
Call_asMatrixArray ==
    /\ pc = "return" /\ op = "__mul__" /\ ret.cls = "QuaternionArray"
    /\ tmp' = ret
    /\ ret' = asMatrixArray(ret)
    /\ op' = "asMatrixArray"
    /\ UNCHANGED <<self, other, pc>>

NextMul ==
    \/ Call_Quaternion__mul__
    \/ Call_QuaternionArray__mul__
    \/ Call_asMatrix
    \/ Call_asMatrixArray

SpecMul == InitMul /\ [][NextMul]_vars

(***************************************************************************)
(* Vectors: resizing, rotation by a quaternion, multiplication.            *)
(***************************************************************************)
\* VECTOR_BY_SIZE and VECTOR_ARRAY_BY_SIZE have the keys 2, 3 and 4
VECTOR_BY_SIZE == Sizes

\* VectorN.full(value) of the class of size N
VectorN_full(N, value) == Val("VectorN", N, [i \in 1..N |-> value])

\* VectorNArray.full(length, value) of the class of size N
VectorNArray_full(N, length, value) ==
    Val("VectorNArray", N, [r \in 1..length |-> [i \in 1..N |-> value]])

\* mutant: a vector made longer is not filled from the vector it comes from
VectorN_asVectorSize_keepsFill(slf, n, pad) ==
    IF n = slf.N THEN slf
    ELSE IF n \notin VECTOR_BY_SIZE THEN Raise("KeyError")
    ELSE IF n > slf.N THEN VectorN_full(n, pad)
    ELSE Val("VectorN", n, [i \in 1..n |-> slf.a[i]])

\* VectorN.asVectorSize(n, pad)
VectorN_asVectorSize(slf, n, pad) ==
    IF n = slf.N THEN slf
    ELSE IF n \notin VECTOR_BY_SIZE THEN Raise("KeyError")
    ELSE LET full == VectorN_full(n, pad)
             m == Min(n, slf.N)
         IN  [full EXCEPT !.a = [i \in 1..n |-> IF i <= m THEN slf.a[i] ELSE full.a[i]]]

\* VectorNArray.asVectorSize(n, pad)
VectorNArray_asVectorSize(slf, n, pad) ==
    IF n = slf.N THEN slf
    ELSE IF n \notin VECTOR_BY_SIZE THEN Raise("KeyError")
    ELSE LET full == VectorNArray_full(n, Len(slf.a), pad)
             m == Min(n, slf.N)
         IN  [full EXCEPT !.a = [r \in 1..Len(slf.a) |->
                 [i \in 1..n |-> IF i <= m THEN slf.a[r][i] ELSE full.a[r][i]]]]

\* ret.asVectorSize(n) of the outcome of a kernel, with the default pad
Resized(r, n) ==
    IF r.kind = "raise" THEN r
    ELSE IF r.cls = "VectorN" THEN VectorN_asVectorSize(r, n, One)
    ELSE VectorNArray_asVectorSize(r, n, One)

vectorquatproduct(v0, q0) ==
    LET v == arrayCompat(v0).a
        q == arrayCompat(q0).a
        qvec == ColsTo(q, 3)
        uv == NpCross(qvec, v)
        uuv == NpCross(qvec, uv)
        w2 == AsRow(Scale1(2, Col(q, 3)))
    IN  IF ~CanBroadcast(Len(q), Len(v)) THEN Raise("ValueError")
        ELSE IF ~CanBin2(uv, w2) THEN Raise("ValueError")
        ELSE Val("VectorNArray", 3, Add2(Add2(v, Mul2(uv, w2)), Scale2(2, uuv)))

VectorN__mul__(slf, oth) ==
    LET o == asarray(oth)
        exp3 == VectorN_asVectorSize(slf, 3, One)
    IN  IF o.cls = "VectorN"
        THEN IF slf.N # o.N THEN Raise("TypeError")
             ELSE Val("float", 0, Dot(slf.a, o.a))
        ELSE IF o.cls = "VectorNArray"
        THEN IF slf.N # o.N THEN Raise("TypeError")
             ELSE Val("ndarray", 0, [i \in 1..Len(o.a) |-> Dot(slf.a, o.a[i])])
        ELSE IF o.cls = "MatrixN"
        THEN IF o.N < slf.N THEN Raise("TypeError")
             ELSE IF Len(slf.a) # Len(o.a) THEN Raise("ValueError")
             ELSE Resized(Val("VectorN", slf.N, VecMat(slf.a, o.a)), slf.N)
        ELSE IF o.cls = "Quaternion"
        THEN Resized(Item0(vectorquatproduct(asArray(exp3), asArray(o))), slf.N)
        ELSE IF o.cls = "QuaternionArray"
        THEN Resized(vectorquatproduct(asArray(exp3), o), slf.N)
        ELSE LET r == ndarray__mul__(slf, o)
             IN  IF r.kind = "raise" THEN r ELSE [r EXCEPT !.a = r.a[1]]

VectorNArray__mul__(slf, oth) ==
    LET o == asarray(oth)
        exp3 == VectorNArray_asVectorSize(slf, 3, One)
    IN  IF o.cls = "VectorNArray"
        THEN IF o.N # slf.N THEN Raise("TypeError")
             ELSE IF ~CanBroadcast(Len(slf.a), Len(o.a)) THEN Raise("ValueError")
             ELSE Val("ndarray", 0, SumAxis1(Mul2(slf.a, o.a)))
        ELSE IF o.cls = "VectorN"
        THEN IF o.N # slf.N THEN Raise("TypeError")
             \* np.dot keeps the class of its first operand; the shape is (n,)
             ELSE Val("VectorNArray", slf.N, [i \in 1..Len(slf.a) |-> Dot(slf.a[i], o.a)])
        ELSE IF o.cls = "MatrixN"
        THEN IF o.N < slf.N THEN Raise("TypeError")
             ELSE LET exp == VectorNArray_asVectorSize(slf, o.N, One)
                  IN  Resized(Val("VectorNArray", o.N,
                                  [i \in 1..Len(exp.a) |-> VecMat(exp.a[i], o.a)]),
                              slf.N)
        ELSE IF o.cls = "Quaternion"
        THEN Resized(vectorquatproduct(exp3, asArray(o)), slf.N)
        ELSE IF o.cls = "QuaternionArray"
        THEN Resized(vectorquatproduct(exp3, o), slf.N)
        ELSE ndarray__mul__(slf, o)

(***************************************************************************)
(* Axis and angle.  An angle is a multiple of a quarter turn: in radians   *)
(* the model holds k for k * pi / 2, in degrees the number of degrees      *)
(* (a multiple of 90); sin and cos of these angles are 0, 1 and -1.        *)
(***************************************************************************)
deg2rad(d) == d \div 90

Sin(k) == CASE k % 4 = 0 -> 0 [] k % 4 = 1 -> One [] k % 4 = 2 -> 0 [] OTHER -> -One

Cos(k) == CASE k % 4 = 0 -> One [] k % 4 = 1 -> 0 [] k % 4 = 2 -> -One [] OTHER -> 0

\* QuaternionArray.zeros(n)
QuaternionArray_zeros(n) == QuaternionArray__new__([i \in 1..n |-> <<0, 0, 0, 0>>])

\* QuaternionArray.axisAngle(axes, angles, degrees)
axisAngle(axes0, angles0, degrees) ==
    LET axes == arrayCompat(axes0).a
        angles == IF degrees THEN [i \in 1..Len(angles0) |-> deg2rad(angles0[i])]
                  ELSE angles0
        sins == [i \in 1..Len(angles) |-> Sin(angles[i])]
        coss == [i \in 1..Len(angles) |-> Cos(angles[i])]
        zeros == QuaternionArray_zeros(Len(axes))
        xyz == Mul2(axes, AsCol(sins))
    IN  IF ~CanBroadcast(Len(axes), Len(sins)) \/ ~CanAssign(Len(xyz), Len(axes))
           \/ ~CanAssign(Len(coss), Len(axes))
        THEN Raise("ValueError")
        ELSE [zeros EXCEPT !.a = [i \in 1..Len(axes) |->
                 <<Pick(xyz, i)[1], Pick(xyz, i)[2], Pick(xyz, i)[3], Pick(coss, i)>>]]

AxisAngleArgs(axes, angles, degrees) ==
    [kind |-> "axisAngle", axes |-> axes, angles |-> angles, degrees |-> degrees]

(***************************************************************************)
(* The operands of vector * quaternion and vector * matrix.                *)
(***************************************************************************)
Identity(M) == [i \in 1..M |-> [j \in 1..M |-> IF i = j THEN One ELSE 0]]

Counting(M) == [i \in 1..M |-> [j \in 1..M |-> One * ((i - 1) * M + j)]]

Matrices(M) == {Val("MatrixN", M, Identity(M)), Val("MatrixN", M, Counting(M))}

\* Quaternion(): the default quaternion
IdentityQuaternion == <<0, 0, 0, One>>

UnitAxes == {<<One, 0, 0>>, <<0, One, 0>>, <<0, 0, One>>}

QuarterTurns == 0..3

AxisAngles ==
    {AxisAngleArgs(Val("VectorNArray", 3, <<ax>>), <<k>>, FALSE) :
         ax \in UnitAxes, k \in QuarterTurns}
    \cup {AxisAngleArgs(Val("VectorNArray", 3, <<ax>>), <<90 * k>>, TRUE) :
              ax \in UnitAxes, k \in QuarterTurns}

InitRot ==
    /\ \/ self \in Vectors(3, VecVals(3)) /\ other \in Quaternions(QuatVals)
       \/ self \in Vectors(3, VecVals(3)) /\ other \in AxisAngles
       \/ self \in VectorArrays(3, VecBatches(3)) /\ other \in QuaternionArrays(QuatBatches)
       \/ \E N \in Sizes :
              /\ \/ self \in Vectors(N, VecPool(N))
                 \/ self \in VectorArrays(N, VecBatches(N))
              /\ \/ other \in Quaternions(QuatPool)
                 \/ other \in QuaternionArrays([1..1 -> QuatPool])
                 \/ \E M \in Sizes : other \in Matrices(M)
                 \/ \E M \in Sizes : other \in Vectors(M, VecPool(M))
                 \/ \E M \in Sizes : other \in VectorArrays(M, [1..1 -> VecPool(M)])
                 \/ other \in Floats
       \/ \E N \in Sizes :
              /\ \/ self \in Vectors(N, VecVals(N))
                 \/ self \in VectorArrays(N, VecBatches(N))
              /\ \/ other \in Quaternions({IdentityQuaternion})
                 \/ other \in QuaternionArrays({<<IdentityQuaternion>>})
    /\ tmp = None
    /\ ret = None
    /\ pc = "call"
    /\ op = ""

\* the right operand of the multiplication: other, or what was made of it
Operand == IF tmp.kind = "none" THEN other ELSE tmp

\* q.asMatrix(), for the multiplication v * q.asMatrix()
Call_asMatrix_operand ==
    /\ pc = "call" /\ tmp.kind = "none"
    /\ self.cls = "VectorN" /\ self.N = 3
    /\ other.kind = "value" /\ other.cls = "Quaternion"
    /\ tmp' = asMatrix(other)
    /\ op' = "asMatrix"
    /\ UNCHANGED <<self, other, ret, pc>>

\* QuaternionArray.axisAngle(axes, angles, degrees), for v * quaternion
Call_axisAngle ==
    /\ pc = "call" /\ tmp.kind = "none"
    /\ other.kind = "axisAngle"
    /\ tmp' = axisAngle(other.axes, other.angles, other.degrees)
    /\ op' = "axisAngle"
    /\ UNCHANGED <<self, other, ret, pc>>

Call_VectorN__mul__ ==
    /\ pc = "call" /\ self.cls = "VectorN"
    /\ Operand.kind = "value"
    /\ Return("__mul__", VectorN__mul__(self, Operand))

Call_VectorNArray__mul__ ==
    /\ pc = "call" /\ self.cls = "VectorNArray"
    /\ Operand.kind = "value"
    /\ Return("__mul__", VectorNArray__mul__(self, Operand))

NextRot ==
    \/ Call_asMatrix_operand
    \/ Call_axisAngle
    \/ Call_VectorN__mul__
    \/ Call_VectorNArray__mul__

SpecRot == InitRot /\ [][NextRot]_vars

(***************************************************************************)
(* asVectorSize(n, pad) and back: v.asVectorSize(n, pad), then             *)
(* asVectorSize(N, pad) of what the first call returned.                   *)
(***************************************************************************)
ResizeArgs(n, pad) == [kind |-> "resize", n |-> n, pad |-> pad]

Pads == {One, 0, -Half}

InitResize ==
    /\ \E N \in Sizes :
           \/ self \in Vectors(N, VecVals(N))
           \/ self \in VectorArrays(N, VecBatches(N))
    /\ other \in {ResizeArgs(n, pad) : n \in 1..MaxDim, pad \in Pads}
    /\ tmp = None
    /\ ret = None
    /\ pc = "call"
    /\ op = ""

\* the first call keeps its result in tmp, the second call is made on tmp
Resize(r) ==
    IF tmp.kind = "none" /\ r.kind = "value"
    THEN /\ tmp' = r
         /\ op' = "asVectorSize"
         /\ UNCHANGED <<self, other, ret, pc>>
    ELSE Return("asVectorSize", r)

Call_VectorN_asVectorSize ==
    /\ pc = "call" /\ other.kind = "resize"
    /\ self.cls = "VectorN"
    /\ Resize(IF tmp.kind = "none"
              THEN VectorN_asVectorSize(self, other.n, other.pad)
              ELSE VectorN_asVectorSize(tmp, self.N, other.pad))

Call_VectorNArray_asVectorSize ==
    /\ pc = "call" /\ other.kind = "resize"
    /\ self.cls = "VectorNArray"
    /\ Resize(IF tmp.kind = "none"
              THEN VectorNArray_asVectorSize(self, other.n, other.pad)
              ELSE VectorNArray_asVectorSize(tmp, self.N, other.pad))

NextResize ==
    \/ Call_VectorN_asVectorSize
    \/ Call_VectorNArray_asVectorSize

SpecResize == InitResize /\ [][NextResize]_vars

(***************************************************************************)
(* A sequence of points: adjacentLengths and parallelTransport.            *)
(* Angles are multiples of a quarter turn, as for axisAngle; the square    *)
(* root is taken of squares and the arc cosine of -1, 0 and 1 only, which  *)
(* is what point sequences with edges along the coordinate axes give.      *)
(***************************************************************************)
Sub2(x, y) == [i \in 1..BLen(Len(x), Len(y)) |-> Sub1(Pick(x, i), Pick(y, i))]

\* np.sqrt, exact on squares
Sqrt(x) == CHOOSE r \in 0..(x + One) : Mul(r, r) = x

\* x / y for y # 0
Div(x, y) == (x * One) \div y

\* np.acos, in quarter turns
Acos(c) == CASE c = One -> 0 [] c = 0 -> 1 [] c = -One -> 2

\* self[1:] and self[:-1] of a vector array
Rest(slf) == VectorNArray__getitem__(slf, Index(FALSE, <<IxSlice(1, Len(slf.a))>>))

Front(slf) ==
    VectorNArray__getitem__(slf, Index(FALSE, <<IxSlice(0, Max(Len(slf.a) - 1, 0))>>))

\* ndarray.__sub__ of two vector arrays
VectorNArray__sub__(slf, oth) == Val("VectorNArray", slf.N, Sub2(slf.a, oth.a))

VectorNArray_lengthSquared(slf) ==
    Val("ndarray", 0, [i \in 1..Len(slf.a) |-> Dot(slf.a[i], slf.a[i])])

VectorNArray_length(slf) ==
    Val("ndarray", 0, [i \in 1..Len(slf.a) |-> Sqrt(VectorNArray_lengthSquared(slf).a[i])])

VectorNArray_normal(slf) ==
    LET len == VectorNArray_length(slf).a
    IN  Val("VectorNArray", slf.N,
            [i \in 1..Len(slf.a) |-> [j \in 1..slf.N |-> Div(slf.a[i][j], len[i])]])

\* np.cross takes its operands as plain arrays and returns one
VectorNArray_cross(slf, oth) == Val("ndarray", 0, NpCross(slf.a, arrayCompat(oth).a))

VectorNArray_angle(slf, oth) ==
    \* self.normal() * other.normal(): the dot product of each pair of rows
    LET dots == SumAxis1(Mul2(VectorNArray_normal(slf).a,
                              VectorNArray_normal(arrayCompat(oth)).a))
    IN  Val("ndarray", 0, [i \in 1..Len(dots) |-> Acos(dots[i])])

VectorNArray_adjacentLengths(slf) ==
    IF Len(slf.a) < 2 THEN Raise("ValueError")
    ELSE VectorNArray_length(VectorNArray__sub__(Rest(slf), Front(slf)))

\* the names a vector array class has: those of the class body of
\* VectorNArray; numpy's ndarray has no attribute zeros
VectorNArray_attributes ==
    {"__new__", "getReturnType", "__getitem__", "lengthSquared", "length",
     "normal", "normalize", "ones", "full", "asVectorSize", "append", "extend",
     "cross", "__mul__", "angle", "planeNormals", "adjacentLengths", "distances",
     "lerp", "parallelTransport"}

\* the rotations of parallelTransport, one for each pair of adjacent edges
TransportQuats(slf, inverse) ==
    LET adjVecs == VectorNArray__sub__(Rest(slf), Front(slf))
        binorms == VectorNArray_cross(Rest(adjVecs), Front(adjVecs))
        angles == VectorNArray_angle(Rest(adjVecs), Front(adjVecs)).a
    IN  axisAngle(binorms, IF inverse THEN Scale1(-1, angles) ELSE angles, FALSE)

\* out[i + 1] = out[i] * quats[i] for each i, then out[-1] = out[-2];
\* out[i] is a Vector3 and quats[i] a Quaternion, so the product is the
\* first row of vectorquatproduct of their length-1 batches
TransportRows(n, upv, quats) ==
    LET out[i \in 1..n] ==
            IF i = 1 THEN upv
            ELSE vectorquatproduct(Val("VectorNArray", 3, <<out[i - 1]>>),
                                   Val("QuaternionArray", 4, <<quats[i - 1]>>)).a[1]
    IN  [i \in 1..n |-> IF i = n THEN out[n - 1] ELSE out[i]]

\* the lines of parallelTransport that can raise, in the order of the code:
\* VECTOR_ARRAY_BY_SIZE[3].zeros, out[0] = upv, quats[i] for i up to
\* len(self) - 2, and out[-2]
VectorNArray_parallelTransport(slf, upv, inverse) ==
    LET n == Len(slf.a)
        quats == TransportQuats(slf, inverse)
    IN  IF "zeros" \notin VectorNArray_attributes THEN Raise("AttributeError")
        ELSE IF n = 0 THEN Raise("IndexError")
        ELSE IF n - 1 > Len(quats.a) THEN Raise("IndexError")
        ELSE IF n < 2 THEN Raise("IndexError")
        ELSE Val("VectorNArray", 3, TransportRows(n, upv.a, quats.a))

(***************************************************************************)
(* The point sequences: 0..MaxLen points, each edge along a coordinate     *)
(* axis.                                                                   *)
(***************************************************************************)
Steps ==
    {[j \in 1..3 |-> IF j = ax THEN k * One ELSE 0] :
         ax \in 1..3, k \in (-MaxCoord..MaxCoord) \ {0}}

RECURSIVE Paths(_)
Paths(n) ==
    IF n = 0 THEN {<<>>}
    ELSE IF n = 1 THEN {<< <<0, 0, 0>> >>}
    ELSE {Append(p, Add1(p[Len(p)], s)) : p \in Paths(n - 1), s \in Steps}

TransportArgs(upv, inverse) == [kind |-> "transport", upv |-> upv, inverse |-> inverse]

NoArgs == [kind |-> "noargs"]

InitPath ==
    /\ \E n \in 0..MaxLen : self \in VectorArrays(3, Paths(n))
    /\ \/ other \in {TransportArgs(upv, inv) :
                         upv \in Vectors(3, UnitAxes), inv \in BOOLEAN}
       \/ other = NoArgs
    /\ tmp = None
    /\ ret = None
    /\ pc = "call"
    /\ op = ""

Call_parallelTransport ==
    /\ pc = "call" /\ other.kind = "transport"
    /\ Return("parallelTransport",
              VectorNArray_parallelTransport(self, other.upv, other.inverse))

Call_adjacentLengths ==
    /\ pc = "call" /\ other.kind = "noargs"
    /\ Return("adjacentLengths", VectorNArray_adjacentLengths(self))

NextPath ==
    \/ Call_parallelTransport
    \/ Call_adjacentLengths

SpecPath == InitPath /\ [][NextPath]_vars

(***************************************************************************)
(* slerp.  A division by zero gives numpy's nan (0 / 0) or inf (x / 0),    *)
(* with a warning and no exception; nan and inf are two numbers outside    *)
(* the range of the model's values, and the arithmetic carries them on.    *)
(***************************************************************************)
Inf == One * One * One * One

NaN == Inf + Inf

Abs(x) == IF x < 0 THEN -x ELSE x

FDiv(x, y) ==
    IF x = NaN \/ y = NaN THEN NaN
    ELSE IF y # 0 THEN Div(x, y)
    ELSE IF x = 0 THEN NaN
    ELSE IF x > 0 THEN Inf ELSE -Inf

FMul(x, y) ==
    IF x = NaN \/ y = NaN THEN NaN
    ELSE IF Abs(x) = Inf \/ Abs(y) = Inf
    THEN IF x = 0 \/ y = 0 THEN NaN
         ELSE IF (x > 0) = (y > 0) THEN Inf ELSE -Inf
    ELSE Mul(x, y)

FAdd(x, y) ==
    IF x = NaN \/ y = NaN THEN NaN
    ELSE IF Abs(x) = Inf /\ Abs(y) = Inf THEN IF x = y THEN x ELSE NaN
    ELSE IF Abs(x) = Inf THEN x
    ELSE IF Abs(y) = Inf THEN y
    ELSE x + y

\* self * ratio, which QuaternionArray.__mul__ hands to ndarray.__mul__: the
\* rows (n, 4) meet the ratios (n,) as the single row (1, n)
TimesRatios(slf, ratio) ==
    IF ~CanBin2(slf.a, AsRow(ratio)) THEN Raise("ValueError")
    ELSE Val("QuaternionArray", 4,
             [i \in 1..Len(slf.a) |-> [j \in 1..4 |-> FMul(slf.a[i][j], Pick(ratio, j))]])

\* QuaternionArray.slerp(other, tVal); the half angle is in quarter turns
QuaternionArray_slerp(slf, oth0, tVal) ==
    LET oth == arrayCompat(oth0)
        dots == SumAxis1(Mul2(slf.a, oth.a))
        cosHalfAngle == [i \in 1..Len(dots) |-> IF Abs(dots[i]) >= One THEN One ELSE dots[i]]
        halfAngle == [i \in 1..Len(dots) |-> Acos(cosHalfAngle[i])]
        sinHalfAngle ==
            [i \in 1..Len(dots) |-> Sqrt(One - Mul(cosHalfAngle[i], cosHalfAngle[i]))]
        ratioA == [i \in 1..Len(dots) |->
                      FDiv(Sin(((One - tVal) * halfAngle[i]) \div One), sinHalfAngle[i])]
        ratioB == [i \in 1..Len(dots) |->
                      FDiv(Sin((tVal * halfAngle[i]) \div One), sinHalfAngle[i])]
        a == TimesRatios(slf, ratioA)
        b == TimesRatios(oth, ratioB)
    IN  IF ~CanBroadcast(Len(slf.a), Len(oth.a)) THEN Raise("ValueError")
        ELSE IF a.kind = "raise" THEN a
        ELSE IF b.kind = "raise" THEN b
        ELSE Val("QuaternionArray", 4,
                 [i \in 1..BLen(Len(a.a), Len(b.a)) |->
                     [j \in 1..4 |-> FAdd(Pick(a.a, i)[j], Pick(b.a, i)[j])]])

(***************************************************************************)
(* The operands of slerp: unit quaternions that are equal, opposite or at  *)
(* a right angle (dot product 1, -1 or 0), in batches of 1..MaxLen equal   *)
(* rows; the fraction is 0, 1/2 or 1, and 0 or 1 at a right angle.         *)
(***************************************************************************)
UnitQuats == {q \in QuatVals : IsUnit(q)}

Fractions(q1, q2) == IF Dot(q1, q2) = 0 THEN {0, One} ELSE {0, Half, One}

SlerpArgs(q, t) == [kind |-> "slerp", q |-> q, t |-> t]

Repeated(q, n) == [i \in 1..n |-> q]

InitSlerp ==
    /\ \E q1 \in UnitQuats, q2 \in UnitQuats, n \in 1..MaxLen :
           /\ Dot(q1, q2) \in {0, One, -One}
           /\ self = Val("QuaternionArray", 4, Repeated(q1, n))
           /\ \E t \in Fractions(q1, q2) :
                  \/ other = SlerpArgs(Val("QuaternionArray", 4, Repeated(q2, n)), t)
                  \/ other = SlerpArgs(Val("Quaternion", 4, q2), t)
    /\ tmp = None
    /\ ret = None
    /\ pc = "call"
    /\ op = ""

Call_slerp ==
    /\ pc = "call" /\ other.kind = "slerp"
    /\ Return("slerp", QuaternionArray_slerp(self, other.q, other.t))

NextSlerp == Call_slerp

SpecSlerp == InitSlerp /\ [][NextSlerp]_vars

(***************************************************************************)
(* Growing an array: append and extend of a vector array work in place     *)
(* and return None; appended and extended of a quaternion array return a   *)
(* new array; normalize works in place.  The outcome of a call that works  *)
(* in place is the receiver after the call and what the call returns.      *)
(*                                                                         *)
(* ndarray.resize changes the size of an array in place only when the      *)
(* array owns its data and nothing else refers to it, and raises           *)
(* ValueError otherwise: an array that comes from a constructor is a view, *)
(* one that comes from an arithmetic operation or copy() owns its data,    *)
(* and the count of references depends on the caller and the interpreter.  *)
(* The model does not follow ownership: resizable is either.               *)
(***************************************************************************)
PyNone == Val("NoneType", 0, <<>>)

Outcome(s, r) == [self |-> s, ret |-> r]

Zeros(n, N) == [i \in 1..n |-> [j \in 1..N |-> 0]]

\* self.resize((rows, N)), for rows >= len(self): the new rows are zero
ndarray_resize(slf, rows, resizable) ==
    IF rows = Len(slf.a) THEN slf
    ELSE IF ~resizable THEN Raise("ValueError")
    ELSE [slf EXCEPT !.a = slf.a \o Zeros(rows - Len(slf.a), slf.N)]

\* VectorNArray.append(v), for a one-dimensional v
VectorNArray_append(slf, v, resizable) ==
    LET n == Len(slf.a)
        grown == ndarray_resize(slf, n + 1, resizable)
    IN  IF grown.kind = "raise" THEN Outcome(slf, grown)
        ELSE IF ~CanAssign(Len(v.a), slf.N) THEN Outcome(grown, Raise("ValueError"))
        ELSE Outcome([grown EXCEPT !.a[n + 1] = [j \in 1..slf.N |-> Pick(v.a, j)]],
                     PyNone)

\* the rows self[-k:] of an array of n rows: all of them when k = 0
LastRows(n, k) == IF k = 0 THEN n ELSE Min(k, n)

\* VectorNArray.extend(v), for a two-dimensional v
VectorNArray_extend(slf, v, resizable) ==
    LET n == Len(slf.a)
        k == Len(v.a)
        grown == ndarray_resize(slf, n + k, resizable)
    IN  IF grown.kind = "raise" THEN Outcome(slf, grown)
        ELSE IF ~CanAssign(k, LastRows(n + k, k)) \/ ~CanAssign(v.N, slf.N)
        THEN Outcome(grown, Raise("ValueError"))
        ELSE Outcome([grown EXCEPT !.a = [i \in 1..(n + k) |->
                         IF i <= n THEN slf.a[i]
                         ELSE [j \in 1..slf.N |-> Pick(v.a[i - n], j)]]],
                     PyNone)

\* VectorNArray.normalize()
VectorNArray_normalize(slf) == Outcome(VectorNArray_normal(slf), PyNone)

\* np.resize(a, (rows, N)): a new array, a repeated as often as needed, or
\* zeros when a is empty
np_resize(a, rows, N) ==
    IF Len(a) = 0 THEN Zeros(rows, N)
    ELSE [i \in 1..rows |-> a[((i - 1) % Len(a)) + 1]]

\* QuaternionArray.appended(value), for a one-dimensional value
QuaternionArray_appended(slf, value) ==
    LET n == Len(slf.a)
        ret0 == np_resize(slf.a, n + 1, 4)
    IN  IF ~CanAssign(Len(value.a), 4) THEN Raise("ValueError")
        ELSE Val(slf.cls, 4, [ret0 EXCEPT ![n + 1] = [j \in 1..4 |-> Pick(value.a, j)]])

\* QuaternionArray.extended(value), for a two-dimensional value
QuaternionArray_extended(slf, value) ==
    LET n == Len(slf.a)
        k == Len(value.a)
        ret0 == np_resize(slf.a, n + k, 4)
    IN  IF ~CanAssign(k, LastRows(n + k, k)) \/ ~CanAssign(value.N, 4)
        THEN Raise("ValueError")
        ELSE Val(slf.cls, 4, [i \in 1..(n + k) |->
                 IF i <= n THEN ret0[i] ELSE [j \in 1..4 |-> Pick(value.a[i - n], j)]])

(***************************************************************************)
(* The receivers hold 0..MaxLen rows, the values 0..2 rows; tmp keeps the  *)
(* receiver as it is before the call.                                      *)
(***************************************************************************)
EditArgs(v) == [kind |-> "edit", v |-> v]

ShortBatches(S) == UNION {[1..k -> S] : k \in 0..2}

\* rows along a coordinate axis, of length 1, 2, ...
AxisRows == {Scale1(k, s) : s \in Steps, k \in 1..2}

InitEdit ==
    /\ \/ \E N \in Sizes :
              /\ self \in VectorArrays(N, {<<>>} \cup VecBatches(N))
              /\ \E M \in Sizes :
                     \/ other \in {EditArgs(v) : v \in Vectors(M, VecPool(M))}
                     \/ other \in {EditArgs(v) :
                                       v \in VectorArrays(M, ShortBatches(VecPool(M)))}
       \/ /\ self \in QuaternionArrays({<<>>} \cup QuatBatches)
          /\ \/ other \in {EditArgs(v) : v \in Quaternions(QuatPool)}
             \/ other \in {EditArgs(v) : v \in QuaternionArrays(ShortBatches(QuatPool))}
             \/ other \in {EditArgs(v) : v \in Vectors(3, VecPool(3))}
             \/ other \in {EditArgs(v) : v \in VectorArrays(3, ShortBatches(VecPool(3)))}
       \/ /\ self \in VectorArrays(3, [1..1 -> AxisRows] \cup [1..2 -> AxisRows])
          /\ other = NoArgs
    /\ tmp = self
    /\ ret = None
    /\ pc = "call"
    /\ op = ""

\* the end of a call that works in place
Mutate(name, out) ==
    /\ self' = out.self
    /\ ret' = out.ret
    /\ pc' = IF out.ret.kind = "raise" THEN "raise" ELSE "return"
    /\ op' = name
    /\ UNCHANGED <<other, tmp>>

Call_VectorNArray_append ==
    /\ pc = "call" /\ other.kind = "edit"
    /\ self.cls = "VectorNArray" /\ other.v.cls = "VectorN"
    /\ \E resizable \in BOOLEAN :
           Mutate("append", VectorNArray_append(self, other.v, resizable))

Call_VectorNArray_extend ==
    /\ pc = "call" /\ other.kind = "edit"
    /\ self.cls = "VectorNArray" /\ other.v.cls = "VectorNArray"
    /\ \E resizable \in BOOLEAN :
           Mutate("extend", VectorNArray_extend(self, other.v, resizable))

Call_VectorNArray_normalize ==
    /\ pc = "call" /\ other.kind = "noargs"
    /\ self.cls = "VectorNArray"
    /\ Mutate("normalize", VectorNArray_normalize(self))

Call_QuaternionArray_appended ==
    /\ pc = "call" /\ other.kind = "edit"
    /\ self.cls = "QuaternionArray" /\ other.v.cls \in {"Quaternion", "VectorN"}
    /\ Return("appended", QuaternionArray_appended(self, other.v))

Call_QuaternionArray_extended ==
    /\ pc = "call" /\ other.kind = "edit"
    /\ self.cls = "QuaternionArray" /\ other.v.cls \in {"QuaternionArray", "VectorNArray"}
    /\ Return("extended", QuaternionArray_extended(self, other.v))

NextEdit ==
    \/ Call_VectorNArray_append
    \/ Call_VectorNArray_extend
    \/ Call_VectorNArray_normalize
    \/ Call_QuaternionArray_appended
    \/ Call_QuaternionArray_extended

SpecEdit == InitEdit /\ [][NextEdit]_vars

(***************************************************************************)
(* Construction.  An initializer is what np.asarray makes of the argument: *)
(* its shape (one extent for each level of nesting) and its numbers in     *)
(* row-major order; a constructed object is a view of that array, with its *)
(* class.                                                                  *)
(***************************************************************************)
Initializer(shape, flat) == [kind |-> "init", shape |-> shape, flat |-> flat]

NoInitializer == [kind |-> "noinit"]

Arr(cls, N, shape, flat) ==
    [kind |-> "value", cls |-> cls, N |-> N, shape |-> shape, a |-> flat]

\* ary.size
Size(ary) == Len(ary.flat)

\* VectorN.__new__(cls, input_array=None), for the class of size N
VectorN__new__(N, input_array) ==
    LET ary == IF input_array = NoInitializer
               THEN Initializer(<<N>>, [i \in 1..N |-> 0])
               ELSE input_array
    IN  IF Size(ary) # N THEN Raise("ValueError")
        ELSE Arr("VectorN", N, ary.shape, ary.flat)

\* Quaternion.__new__(cls, input_array=None)
Quaternion__new__(input_array) ==
    LET ary == IF input_array = NoInitializer
               THEN Initializer(<<4>>, <<0, 0, 0, One>>)
               ELSE input_array
    IN  IF Size(ary) # 4 THEN Raise("ValueError")
        ELSE Arr("Quaternion", 4, ary.shape, ary.flat)

\* ary.reshape((-1, N))
Reshaped(ary, N) ==
    IF Size(ary) % N # 0 THEN Raise("ValueError")
    ELSE Initializer(<<Size(ary) \div N, N>>, ary.flat)

\* VectorNArray.__new__(cls, input_array): the argument is required
VectorNArray__new__(N, input_array) ==
    IF input_array = NoInitializer THEN Raise("TypeError")
    ELSE LET ary == Reshaped(input_array, N)
         IN  IF ary.kind = "raise" THEN ary
             ELSE Arr("VectorNArray", N, ary.shape, ary.flat)

\* QuaternionArray.__new__(cls, input_array=None), from an initializer
QuaternionArray__new__from(input_array) ==
    LET ary == Reshaped(IF input_array = NoInitializer
                        THEN Initializer(<<0>>, <<>>)
                        ELSE input_array, 4)
    IN  IF ary.kind = "raise" THEN ary
        ELSE Arr("QuaternionArray", 4, ary.shape, ary.flat)

(***************************************************************************)
(* The initializers: flat lists of 0..MaxDim numbers, lists of 1..MaxLen   *)
(* rows of 1..4 numbers, and lists nested three deep.                      *)
(***************************************************************************)
InitShapes ==
    {<<k>> : k \in 0..MaxDim}
    \cup {<<r, c>> : r \in 1..MaxLen, c \in 1..4}
    \cup {<<1, 1, c>> : c \in 1..4}

RECURSIVE Product(_)
Product(shape) == IF Len(shape) = 0 THEN 1 ELSE shape[1] * Product(Tail(shape))

Initializers ==
    {NoInitializer}
    \cup {Initializer(sh, [i \in 1..Product(sh) |-> i * One]) : sh \in InitShapes}
    \cup {Initializer(sh, [i \in 1..Product(sh) |-> 0]) : sh \in InitShapes}

InitNew ==
    /\ self \in Classes
    /\ other \in Initializers
    /\ tmp = None
    /\ ret = None
    /\ pc = "call"
    /\ op = ""

Call_VectorN__new__ ==
    /\ pc = "call" /\ self.kind = "class" /\ self.cls = "VectorN"
    /\ other.kind \in {"init", "noinit"}
    /\ Return("__new__", VectorN__new__(self.N, other))

Call_Quaternion__new__ ==
    /\ pc = "call" /\ self.kind = "class" /\ self.cls = "Quaternion"
    /\ other.kind \in {"init", "noinit"}
    /\ Return("__new__", Quaternion__new__(other))

Call_VectorNArray__new__ ==
    /\ pc = "call" /\ self.kind = "class" /\ self.cls = "VectorNArray"
    /\ other.kind \in {"init", "noinit"}
    /\ Return("__new__", VectorNArray__new__(self.N, other))

Call_QuaternionArray__new__ ==
    /\ pc = "call" /\ self.kind = "class" /\ self.cls = "QuaternionArray"
    /\ other.kind \in {"init", "noinit"}
    /\ Return("__new__", QuaternionArray__new__from(other))

NextNew ==
    \/ Call_VectorN__new__
    \/ Call_Quaternion__new__
    \/ Call_VectorNArray__new__
    \/ Call_QuaternionArray__new__

SpecNew == InitNew /\ [][NextNew]_vars

(***************************************************************************)
(* C6.  Column indexing arr[:, k] of a VectorNArray or QuaternionArray     *)
(* returns a plain ndarray and never a domain type, whatever the number of *)
(* rows.                                                                   *)
(***************************************************************************)
IsColumnIndex(idx) ==
    /\ idx.tuple
    /\ Len(idx.items) = 2
    /\ idx.items[1] = IxAll
    /\ idx.items[2].t = "int"

\* C6: the result of arr[:, k] on a batched type is an untyped ndarray
C6_ColumnIsUntyped ==
    (/\ pc = "return"
     /\ op = "__getitem__"
     /\ self.cls \in {"VectorNArray", "QuaternionArray"}
     /\ IsColumnIndex(other))
    => ret.cls = "ndarray"

(***************************************************************************)
(* C7.  The class chosen for a result of a given shape: () -> None (the    *)
(* raw scalar), (N,) -> the scalar entity, (k, N) -> the batched entity,   *)
(* anything else -> ndarray; a scalar type and its batched sibling agree.  *)
(***************************************************************************)
ScalarType(c) ==
    IF c.cls \in {"VectorN", "VectorNArray"} THEN T("VectorN", c.N)
    ELSE T("Quaternion", 4)

BatchedType(c) ==
    IF c.cls \in {"VectorN", "VectorNArray"} THEN T("VectorNArray", c.N)
    ELSE T("QuaternionArray", 4)

ExpectedType(c, shape) ==
    IF Len(shape) = 0 THEN TNone
    ELSE IF Len(shape) = 1 /\ shape[1] = c.N THEN ScalarType(c)
    ELSE IF Len(shape) = 2 /\ shape[2] = c.N THEN BatchedType(c)
    ELSE TNdarray

SiblingType(c, shape) ==
    CASE c.cls = "VectorN" -> VectorNArray_getReturnType(c.N, shape)
      [] c.cls = "VectorNArray" -> VectorN_getReturnType(c.N, shape)
      [] c.cls = "Quaternion" -> QuaternionArray_getReturnType(shape)
      [] c.cls = "QuaternionArray" -> Quaternion_getReturnType(shape)

\* C7: getReturnType maps every shape as the rule says, and as its sibling does
C7_TypeResolution ==
    (pc = "return" /\ op = "getReturnType")
    => /\ ret = TypeResult(ExpectedType(self, other.shape))
       /\ ret = TypeResult(SiblingType(self, other.shape))

C7_Witness ==
    /\ pc = "return"
    /\ op = "getReturnType"
    /\ self.cls = "VectorN"
    /\ Len(other.shape) = 2
    /\ other.shape[1] # self.N
    /\ ret.cls = "VectorNArray"

(***************************************************************************)
(* C1.  p * q of two quaternion batches of compatible lengths has          *)
(* max(len(p), len(q)) rows and row i is the Hamilton product of row i of  *)
(* p and row i of q (a length-1 batch lends its only row), not normalized; *)
(* Quaternion * Quaternion is row 0 of that product.                       *)
(***************************************************************************)
\* the Hamilton product of two quaternions (x, y, z, w), component by component
Hamilton(p, q) ==
    << Mul(p[4], q[1]) + Mul(q[4], p[1]) + (Mul(p[2], q[3]) - Mul(p[3], q[2])),
       Mul(p[4], q[2]) + Mul(q[4], p[2]) + (Mul(p[3], q[1]) - Mul(p[1], q[3])),
       Mul(p[4], q[3]) + Mul(q[4], p[3]) + (Mul(p[1], q[2]) - Mul(p[2], q[1])),
       Mul(p[4], q[4]) - (Mul(p[1], q[1]) + Mul(p[2], q[2]) + Mul(p[3], q[3])) >>

\* the rows of a scalar entity (one row) or of a batch
Rows(x) == IF x.cls \in {"Quaternion", "VectorN"} THEN <<x.a>> ELSE x.a

QuatTimesQuat ==
    /\ pc # "call"
    /\ op = "__mul__"
    /\ IsQuat(self)
    /\ IsQuat(other)

MatMul(a, b) ==
    [i \in 1..Len(a) |-> [k \in 1..Len(a) |->
        Sum([j \in 1..Len(a) |-> Mul(a[i][j], b[j][k])])]]

MatrixOfProduct ==
    /\ pc = "return"
    /\ op = "asMatrix"
    /\ self.cls = "Quaternion"
    /\ other.cls = "Quaternion"

\* C4 as stated: for all quaternions p and q, unit or not
C4_MatrixOfProduct_AllQuaternions ==
    MatrixOfProduct => ret.a = MatMul(asMatrix(self).a, asMatrix(other).a)

\* C4 amended: for all unit quaternions p and q
C4_MatrixOfProduct_Unit ==
    (MatrixOfProduct /\ IsUnit(self.a) /\ IsUnit(other.a))
    => ret.a = MatMul(asMatrix(self).a, asMatrix(other).a)

C4_Witness ==
    /\ MatrixOfProduct
    /\ IsUnit(self.a)
    /\ IsUnit(other.a)
    /\ Hamilton(self.a, other.a) # Hamilton(other.a, self.a)
    /\ ret.cls = "MatrixN"
    /\ ret.a # asMatrix(self).a
    /\ ret.a # asMatrix(other).a

(***************************************************************************)
(* C9.  A vector or vector array on the right of a Quaternion or           *)
(* QuaternionArray raises the unsupported-operation error; the             *)
(* multiplication returns a value only for quaternion, quaternion-array    *)
(* and plain number right operands.                                        *)
(***************************************************************************)
QuatTimesAny ==
    /\ pc # "call"
    /\ op = "__mul__"
    /\ IsQuat(self)

\* C9: quaternion * vector raises NotImplementedError and returns nothing
C9_VectorOnTheRight ==
    QuatTimesAny
    => /\ IsVector(other) => (pc = "raise" /\ ret = Raise("NotImplementedError"))
       /\ ret.kind = "value" => (IsQuat(other) \/ other.cls = "float")
       /\ ret.kind = "raise" /\ ret.exc = "NotImplementedError" => IsVector(other)

C9_Witness ==
    /\ QuatTimesAny
    /\ self.cls = "QuaternionArray"
    /\ other.cls = "VectorNArray"
    /\ other.N = 4
    /\ Len(other.a) = Len(self.a)
    /\ pc = "raise"

(***************************************************************************)
(* C2.  Row i of vectorArray * quaternionArray, for batches of one length, *)
(* is v_i + 2 * q_i.w * cross(q_i.xyz, v_i)                                *)
(*          + 2 * cross(q_i.xyz, cross(q_i.xyz, v_i)):                     *)
(* it depends on v_i and q_i only.                                         *)
(***************************************************************************)
RotateRow(v, q) ==
    LET u == <<q[1], q[2], q[3]>>
        uv == Cross3(u, v)
        uuv == Cross3(u, uv)
    IN  [k \in 1..3 |-> v[k] + 2 * Mul(q[4], uv[k]) + 2 * uuv[k]]

VectorArrayTimesQuaternionArray ==
    /\ pc = "return"
    /\ op = "__mul__"
    /\ self.cls = "VectorNArray"
    /\ self.N = 3
    /\ other.kind = "value"
    /\ other.cls = "QuaternionArray"
    /\ Len(self.a) = Len(other.a)

C2_RowwiseRotation ==
    VectorArrayTimesQuaternionArray =>
        /\ ret.cls = "VectorNArray"
        /\ Len(ret.a) = Len(self.a)
        /\ \A i \in 1..Len(self.a) : ret.a[i] = RotateRow(self.a[i], other.a[i])

(***************************************************************************)
(* C3.  For a unit quaternion q and a 3-vector v, v * q.asMatrix() is the  *)
(* vector v * q.                                                           *)
(***************************************************************************)
VectorTimesMatrixOfQuaternion ==
    /\ pc = "return"
    /\ op = "__mul__"
    /\ self.cls = "VectorN"
    /\ self.N = 3
    /\ other.kind = "value"
    /\ other.cls = "Quaternion"
    /\ IsUnit(other.a)
    /\ tmp.kind = "value"
    /\ tmp.cls = "MatrixN"

C3_MatrixRotatesAsQuaternion ==
    VectorTimesMatrixOfQuaternion => ret = VectorN__mul__(self, other)

(***************************************************************************)
(* C5.  The quaternion of axisAngle([[0, 0, 1]], [pi], degrees = False)    *)
(* takes the vector [1, 0, 0] to [-1, 0, 0] under vector * quaternion.     *)
(***************************************************************************)
VectorTimesAxisAngle ==
    /\ pc = "return"
    /\ op = "__mul__"
    /\ self.cls = "VectorN"
    /\ other.kind = "axisAngle"

C5_HalfTurnAboutZ ==
    ( /\ VectorTimesAxisAngle
      /\ other.axes.a = << <<0, 0, One>> >>
      /\ other.angles = <<2>>
      /\ ~other.degrees
      /\ self.a = <<One, 0, 0>> )
    => Rows(ret) = << <<-One, 0, 0>> >>

(***************************************************************************)
(* C8.  vector(N) * matrix(M), scalar or batched: with N <= M the result   *)
(* is the vector padded with 1.0 up to M, multiplied by the matrix and cut *)
(* back to N components; with N > M the call raises.                       *)
(***************************************************************************)
Padded(v, M) == [j \in 1..M |-> IF j <= Len(v) THEN v[j] ELSE One]

VectorTimesMatrix ==
    /\ pc # "call"
    /\ op = "__mul__"
    /\ IsVector(self)
    /\ Operand.kind = "value"
    /\ Operand.cls = "MatrixN"

C8_PadMultiplyTruncate ==
    VectorTimesMatrix =>
        IF self.N <= Operand.N
        THEN /\ ret.kind = "value"
             /\ ret.cls = self.cls
             /\ ret.N = self.N
             /\ Len(Rows(ret)) = Len(Rows(self))
             /\ \A i \in 1..Len(Rows(self)) :
                    Rows(ret)[i] =
                        SubSeq(VecMat(Padded(Rows(self)[i], Operand.N), Operand.a),
                               1, self.N)
        ELSE ret.kind = "raise"

(***************************************************************************)
(* C10.  v.asVectorSize(n).asVectorSize(N), for n in {2, 3, 4}, is v when  *)
(* n >= N; when n < N it has the first n components of v and the pad value *)
(* in the others.  asVectorSize(N) of a vector of dimension N is an equal  *)
(* vector.  The same holds for each row of a vector array.                 *)
(***************************************************************************)
ResizedOnce ==
    /\ pc = "call"
    /\ op = "asVectorSize"
    /\ other.kind = "resize"

ResizedTwice ==
    /\ pc = "return"
    /\ op = "asVectorSize"
    /\ other.kind = "resize"
    /\ tmp.kind = "value"

C10_ResizeRoundTrip ==
    /\ (ResizedOnce /\ other.n = self.N) => tmp = self
    /\ (ResizedTwice /\ other.n \in {2, 3, 4}) =>
           /\ ret.cls = self.cls
           /\ ret.N = self.N
           /\ Len(Rows(ret)) = Len(Rows(self))
           /\ \A i \in 1..Len(Rows(self)) :
                  /\ Len(Rows(ret)[i]) = self.N
                  /\ \A k \in 1..self.N :
                         Rows(ret)[i][k] =
                             IF other.n >= self.N \/ k <= other.n
                             THEN Rows(self)[i][k]
                             ELSE other.pad

C10_Witness ==
    /\ ResizedTwice
    /\ self.cls = "VectorNArray"
    /\ Len(self.a) > 1
    /\ other.n < self.N
    /\ tmp.N = other.n
    /\ ret # self
    /\ ret.a[1][other.n] = self.a[1][other.n]
    /\ ret.a[1][self.N] = other.pad

(***************************************************************************)
(* C11.  parallelTransport of n >= 2 points returns n vectors: vector 0 is *)
(* the given up-vector, vector i + 1 is vector i rotated by quaternion i,  *)
(* and the last vector is the one before it.                               *)
(***************************************************************************)
Transported ==
    /\ pc # "call"
    /\ op = "parallelTransport"
    /\ Len(self.a) >= 2

C11_TransportOnePerPoint ==
    Transported =>
        /\ ret.kind = "value"
        /\ Len(ret.a) = Len(self.a)
        /\ ret.a[1] = other.upv.a
        /\ \A i \in 1..(Len(self.a) - 2) :
               ret.a[i + 1] =
                   RotateRow(ret.a[i], TransportQuats(self, other.inverse).a[i])
        /\ ret.a[Len(self.a)] = ret.a[Len(self.a) - 1]

(***************************************************************************)
(* C12.  parallelTransport of n >= 2 points on one straight line, all      *)
(* edges in one direction, returns the up-vector at each of the n points.  *)
(***************************************************************************)
Straight(a) == \A i \in 1..(Len(a) - 2) : Sub1(a[i + 1], a[i]) = Sub1(a[i + 2], a[i + 1])

C12_StraightLineKeepsUpVector ==
    (Transported /\ Straight(self.a)) =>
        /\ ret.kind = "value"
        /\ Len(ret.a) = Len(self.a)
        /\ \A i \in 1..Len(self.a) : ret.a[i] = other.upv.a

(***************************************************************************)
(* C13.  parallelTransport and adjacentLengths of fewer than 2 points      *)
(* raise the precondition error (ValueError), and of 2 or more points      *)
(* they do not.                                                            *)
(***************************************************************************)
C13_FewerThanTwoPoints ==
    (pc # "call" /\ op \in {"parallelTransport", "adjacentLengths"}) =>
        (Len(self.a) < 2 <=> ret = Raise("ValueError"))

(***************************************************************************)
(* C14.  slerp(q, q, t) of a unit quaternion q is q, for every fraction t, *)
(* and holds no undefined (0 / 0) component.                               *)
(***************************************************************************)
SlerpWithItself ==
    /\ pc # "call"
    /\ op = "slerp"
    /\ Len(self.a) = 1
    /\ IsUnit(self.a[1])
    /\ Rows(other.q) = self.a

C14_SlerpWithItself ==
    SlerpWithItself =>
        /\ ret.kind = "value"
        /\ \A j \in 1..4 : ret.a[1][j] # NaN
        /\ ret.a = self.a

(***************************************************************************)
(* C15.  append and extend of a vector array, and appended and extended of *)
(* a quaternion array, given rows of the size of the receiver, leave the   *)
(* receiver as it was and return a new array.                              *)
(***************************************************************************)
Grown ==
    /\ pc # "call"
    /\ op \in {"append", "extend", "appended", "extended"}
    /\ other.v.N = self.N
    /\ Len(Rows(other.v)) >= 1

C15_ResultIsNewValue ==
    Grown =>
        /\ self = tmp
        /\ ret.kind = "value"
        /\ ret.cls = self.cls

(***************************************************************************)
(* C16.  A call on an array that raises leaves the receiver with the       *)
(* length and the contents it had before the call.                         *)
(***************************************************************************)
C16_NoPartialFailure ==
    (pc = "raise" /\ op \in {"append", "extend", "normalize", "appended", "extended"})
        => self = tmp

(***************************************************************************)
(* C19.  a.extended(values) is the n rows of a followed by the k values,   *)
(* a.appended(value) the n rows of a followed by the value, for n >= 0 and *)
(* k >= 0; a keeps its n rows.                                             *)
(***************************************************************************)
QuaternionsAdded ==
    /\ pc # "call"
    /\ op \in {"appended", "extended"}
    /\ IsQuat(other.v)

C19_ExtendedIsConcatenation ==
    QuaternionsAdded =>
        /\ ret.kind = "value"
        /\ ret.a = tmp.a \o Rows(other.v)
        /\ self = tmp

(***************************************************************************)
(* C17.  A constructed scalar entity is a flat tuple of N components,      *)
(* whatever the nesting of the initializer; a scalar constructor given a   *)
(* number of components other than N raises; without an initializer a      *)
(* Quaternion is (0, 0, 0, 1) and a VectorN is all zeros; a constructed    *)
(* array is a sequence of rows of N components.                            *)
(***************************************************************************)
Constructed == pc # "call" /\ op = "__new__"

C17_ConstructedShape ==
    Constructed =>
        /\ (self.cls \in {"VectorN", "Quaternion"} /\ other.kind = "init") =>
               IF Size(other) = self.N
               THEN ret.kind = "value" /\ ret.shape = <<self.N>> /\ ret.a = other.flat
               ELSE ret = Raise("ValueError")
        /\ (self.cls = "Quaternion" /\ other.kind = "noinit") =>
               ret.kind = "value" /\ ret.shape = <<4>> /\ ret.a = <<0, 0, 0, One>>
        /\ (self.cls = "VectorN" /\ other.kind = "noinit") =>
               /\ ret.kind = "value"
               /\ ret.shape = <<self.N>>
               /\ ret.a = [i \in 1..self.N |-> 0]
        /\ (self.cls \in {"VectorNArray", "QuaternionArray"} /\ ret.kind = "value") =>
               /\ Len(ret.shape) = 2
               /\ ret.shape[2] = self.N
               /\ Len(ret.a) = ret.shape[1] * self.N

(***************************************************************************)
(* C18.  vector * quaternion with the identity quaternion (0, 0, 0, 1)     *)
(* returns the vector unchanged in every component, for N = 2, 3, 4, for a *)
(* single vector and for an array of vectors.                              *)
(***************************************************************************)
ByIdentity ==
    /\ pc # "call" /\ op = "__mul__" /\ tmp.kind = "none"
    /\ self.kind = "value" /\ self.cls \in {"VectorN", "VectorNArray"}
    /\ other.kind = "value" /\ other.cls \in {"Quaternion", "QuaternionArray"}
    /\ Rows(other) = <<IdentityQuaternion>>

C18_IdentityRotationKeepsVector ==
    ByIdentity => ret.kind = "value" /\ Rows(ret) = Rows(self)

=============================================================================
